---- MODULE Spec2Model ----
(***************************************************************************)
(* Model of src/main.py: the translation pipeline of the website mirror.   *)
(* main() walks the HTML files of the source tree; for each file it skips  *)
(* an existing target, validates (find_corrupt_pages), sanitizes           *)
(* (remove_comment_lines), translates the whole document (translate_html), *)
(* writes the target and runs post_processing on the written target        *)
(* (doctype repair, per-tag find_strings / translate_strings, prettify).   *)
(***************************************************************************)
EXTENDS Integers, Sequences, FiniteSets, TLC

\* ---------------------------------------------------------------- bounds
MaxFiles == 2          \* number of *.html files under the source root
MaxRuns == 2           \* how many times the program is started on the same trees

\* ------------------------------------------------------ program constants
max_retries == 5       \* default of translate_strings(max_retries=5)

tags_to_check ==
  {"h1", "h2", "h3", "h4", "h5", "h6", "p", "span", "a", "li", "td", "th",
   "title", "input", "img"}

\* ------------------------------------------------------------------ texts
\* A text is a literal (a sequence of characters; the challenge phrase is one
\* atom) together with the list of translation passes it went through, so a
\* translated text is never equal to its source.
Phrase == "Checking if the site connection is secure"
Space == {" ", "\n"}

T(l) == [lit |-> l, by |-> <<>>]
EmptyText == T(<<>>)

\* translator.translate(text, dest="hi").text  /  translate_html on one string
Translated(t, backend) == [lit |-> t.lit, by |-> Append(t.by, backend)]

\* str.isspace(): non-empty and all whitespace
isspace(t) == Len(t.lit) > 0 /\ \A i \in 1..Len(t.lit) : t.lit[i] \in Space
\* bool(str.strip()): some non-whitespace character
strip_nonempty(t) == \E i \in 1..Len(t.lit) : t.lit[i] \notin Space

\* ------------------------------------------------------------- documents
\* A parsed tree: nodes in document order; kids lists the children of a node,
\* n > 0 is the element with index n, n < 0 is the text node in slot -n;
\* attr is the slot of the alt (img) / placeholder (input) attribute, 0 = None.
N(name, kids, attr) == [name |-> name, kids |-> kids, attr |-> attr]

Catalogue ==
  << \* 1: zero-byte file
     [size0 |-> TRUE, readable |-> TRUE, cmt |-> FALSE, doctype |-> FALSE, nodes |-> <<>>, slots |-> <<>>],
     \* 2: bytes that do not decode as utf-8
     [size0 |-> FALSE, readable |-> FALSE, cmt |-> FALSE, doctype |-> FALSE, nodes |-> <<>>, slots |-> <<>>],
     \* 3: <rss><title>Hi</title></rss>
     [size0 |-> FALSE, readable |-> TRUE, cmt |-> FALSE, doctype |-> FALSE,
      nodes |-> << N("rss", <<2>>, 0), N("title", <<-1>>, 0) >>,
      slots |-> << T(<<"H", "i">>) >>],
     \* 4: <h2>Checking if the site connection is secure</h2>
     [size0 |-> FALSE, readable |-> TRUE, cmt |-> FALSE, doctype |-> FALSE,
      nodes |-> << N("h2", <<-1>>, 0) >>,
      slots |-> << T(<<Phrase>>) >>],
     \* 5: <!DOCTYPE html><!-- c --><p>Hi</p>
     [size0 |-> FALSE, readable |-> TRUE, cmt |-> TRUE, doctype |-> TRUE,
      nodes |-> << N("p", <<-1>>, 0) >>,
      slots |-> << T(<<"H", "i">>) >>],
     \* 6: <p><b>Hi</b></p>
     [size0 |-> FALSE, readable |-> TRUE, cmt |-> FALSE, doctype |-> FALSE,
      nodes |-> << N("p", <<2>>, 0), N("b", <<-1>>, 0) >>,
      slots |-> << T(<<"H", "i">>) >>],
     \* 7: <!DOCTYPE html><p><span>Hi</span></p>
     [size0 |-> FALSE, readable |-> TRUE, cmt |-> FALSE, doctype |-> TRUE,
      nodes |-> << N("p", <<2>>, 0), N("span", <<-1>>, 0) >>,
      slots |-> << T(<<"H", "i">>) >>],
     \* 8: <span>50M</span>
     [size0 |-> FALSE, readable |-> TRUE, cmt |-> FALSE, doctype |-> FALSE,
      nodes |-> << N("span", <<-1>>, 0) >>,
      slots |-> << T(<<"5", "0", "M">>) >>],
     \* 9: <input placeholder="Hi"><img alt="">
     [size0 |-> FALSE, readable |-> TRUE, cmt |-> FALSE, doctype |-> FALSE,
      nodes |-> << N("input", <<>>, 1), N("img", <<>>, 2) >>,
      slots |-> << T(<<"H", "i">>), EmptyText >>],
     \* 10: <feed><h2>Checking if the site connection is secure</h2></feed>
     [size0 |-> FALSE, readable |-> TRUE, cmt |-> FALSE, doctype |-> FALSE,
      nodes |-> << N("feed", <<2>>, 0), N("h2", <<-1>>, 0) >>,
      slots |-> << T(<<Phrase>>) >>],
     \* 11: <h2></h2><h2>Checking if the site connection is secure</h2>
     [size0 |-> FALSE, readable |-> TRUE, cmt |-> FALSE, doctype |-> FALSE,
      nodes |-> << N("h2", <<>>, 0), N("h2", <<-1>>, 0) >>,
      slots |-> << T(<<Phrase>>) >>] >>

Shapes == 1..Len(Catalogue)

\* What a path holds: nothing, or a file.  shape names the tree, slots the
\* current texts, cmt whether a <!--...--> range is present, tok whether the
\* mistranslated doctype token is present, pretty whether it is prettified.
Absent == [exists |-> FALSE]
File(k, slots, cmt, tok, pretty) ==
  [exists |-> TRUE, shape |-> k, slots |-> slots, cmt |-> cmt, tok |-> tok,
   pretty |-> pretty]
SourceFile(k) == File(k, Catalogue[k].slots, Catalogue[k].cmt, FALSE, FALSE)

Nodes(c) == Catalogue[c.shape].nodes

\* ------------------------------------------------- BeautifulSoup helpers
\* tag.string: the single text child, looked up through single element
\* children; None (0) when the tag has no child or more than one.
RECURSIVE String(_, _)
String(nodes, n) ==
  LET kids == nodes[n].kids IN
    IF Len(kids) # 1 THEN 0
    ELSE IF kids[1] < 0 THEN -kids[1]
    ELSE String(nodes, kids[1])

\* tag.get_text(): the literals of all text below the tag, concatenated
RECURSIVE get_text(_, _, _)
RECURSIVE kids_text(_, _, _, _)
kids_text(nodes, slots, kids, i) ==
  IF i > Len(kids) THEN <<>>
  ELSE (IF kids[i] < 0 THEN slots[-kids[i]].lit
        ELSE get_text(nodes, slots, kids[i]))
       \o kids_text(nodes, slots, kids, i + 1)
get_text(nodes, slots, n) == kids_text(nodes, slots, nodes[n].kids, 1)

\* soup.find(name): index of the first element with that name, 0 = None
find(nodes, name) ==
  IF \E i \in 1..Len(nodes) : nodes[i].name = name
  THEN CHOOSE i \in 1..Len(nodes) :
         /\ nodes[i].name = name
         /\ \A j \in 1..(i - 1) : nodes[j].name # name
  ELSE 0

\* soup.find_all(tags_to_check): the listed elements, in document order
RECURSIVE find_all_from(_, _)
find_all_from(nodes, i) ==
  IF i > Len(nodes) THEN <<>>
  ELSE (IF nodes[i].name \in tags_to_check THEN <<i>> ELSE <<>>)
       \o find_all_from(nodes, i + 1)
find_all(nodes) == find_all_from(nodes, 1)

\* ------------------------------------------------------------- validator
\* "h2_header and <phrase> in h2_header.get_text()" for the first h2
challenge_heading(c) ==
  LET h2 == find(Nodes(c), "h2") IN
    /\ h2 # 0
    /\ \E i \in 1..Len(get_text(Nodes(c), c.slots, h2)) :
         get_text(Nodes(c), c.slots, h2)[i] = Phrase

\* mutation of Verdict: the heading test comes before the feed test
Verdict_h2first(c) ==
  IF ~c.exists THEN "notfound"
  ELSE IF Catalogue[c.shape].size0 THEN "empty"
  ELSE IF ~Catalogue[c.shape].readable THEN "error"
  ELSE IF challenge_heading(c) THEN "blocked"
  ELSE IF find(Nodes(c), "rss") # 0 \/ find(Nodes(c), "feed") # 0 THEN "feed"
  ELSE "ok"

\* mutation of Verdict: the zero-byte test is lost
Verdict_noempty(c) ==
  IF ~c.exists THEN "notfound"
  ELSE IF ~Catalogue[c.shape].readable THEN "error"
  ELSE IF find(Nodes(c), "rss") # 0 \/ find(Nodes(c), "feed") # 0 THEN "feed"
  ELSE IF challenge_heading(c) THEN "blocked"
  ELSE "ok"

\* The check of find_corrupt_pages that decides, in the order of the code.
Verdict(c) ==
  IF ~c.exists THEN "notfound"
  ELSE IF Catalogue[c.shape].size0 THEN "empty"
  ELSE IF ~Catalogue[c.shape].readable THEN "error"
  ELSE IF find(Nodes(c), "rss") # 0 \/ find(Nodes(c), "feed") # 0 THEN "feed"
  ELSE IF challenge_heading(c) THEN "blocked"
  ELSE "ok"

find_corrupt_pages(c) == Verdict(c) # "ok"

\* ------------------------------------------------------------- sanitizer
\* remove_comment_lines on a document: the comment ranges it holds are removed
remove_comment_lines(c) == [c EXCEPT !.cmt = FALSE]

\* ------------------------------------------------- document translation
\* the slots that are text nodes of the tree (not attribute values)
TextNodeSlots(c) ==
  {s \in 1..Len(c.slots) :
     \E n \in 1..Len(Nodes(c)) :
       \E i \in 1..Len(Nodes(c)[n].kids) : Nodes(c)[n].kids[i] = -s}

\* translatehtml.translate_html: the backend translates the texts in S and
\* leaves the others; it may turn the doctype into the mistranslated token.
translate_html(c, S, tok) ==
  [c EXCEPT !.slots = [i \in 1..Len(c.slots) |->
                         IF i \in S THEN Translated(c.slots[i], "argos")
                         ELSE c.slots[i]],
            !.tok = tok]

\* --------------------------------------------------------------- selector
Langs == {"en", "hi", "error"}     \* langdetect.detect: a code, or it raises

\* find_strings(tag) returns the tag (TRUE) or None (FALSE); lang is what
\* langdetect answers for tag.string.
find_strings(c, n, lang) ==
  LET tag == Nodes(c)[n]
      s == String(Nodes(c), n) IN
    IF tag.name = "img" /\ tag.attr # 0 THEN TRUE
    ELSE IF tag.name = "input" /\ tag.attr # 0 THEN TRUE
    ELSE IF s = 0 \/ Len(c.slots[s].lit) = 0 THEN FALSE
    ELSE IF ~strip_nonempty(c.slots[s]) THEN FALSE
    ELSE lang = "en"

\* the slot post_processing reads and replaces for a selected tag:
\* placeholder, alt, or tag.string
TextSlot(c, n) ==
  IF Nodes(c)[n].name \in {"input", "img"} THEN Nodes(c)[n].attr
  ELSE String(Nodes(c), n)

\* mutation of ShortCircuit: only the empty text is answered at once
ShortCircuit_emptyonly(t) == Len(t.lit) = 0

\* translate_strings' first test: "not text or text.isspace()"
ShortCircuit(t) == Len(t.lit) = 0 \/ isspace(t)

\* mutation of RetryAllowed: off by one
RetryAllowed_offbyone(r) == r <= max_retries

\* the loop condition of translate_strings
RetryAllowed(r) == r < max_retries

\* the literal str.replace of the doctype repair: the token is gone
doctype_repair(c) == [c EXCEPT !.tok = FALSE]

\* ------------------------------------------------------------------ state
VARIABLES
  src,        \* source tree: path -> file
  tgt,        \* target tree: path -> file or Absent
  tdirs,      \* directories that exist in the target tree (0 = target_dir)
  run,        \* number of the current program run
  pc,         \* position of the run in main / post_processing / translate_strings
  idx,        \* position of main's for loop in html_files
  mem,        \* translated_html_text, later the soup of post_processing
  ti,         \* position of post_processing's for loop in find_all(...)
  retries,    \* translate_strings' retries
  maxReached, \* "Maximum number of retries reached." was printed in this run
  calls,      \* translator.translate calls made by the current translate_strings call
  ev,         \* per path: what this run has done for the file
  nwrites,    \* per path: writes of this run to the target path
  tgt0,       \* the target tree at the start of this run
  pre,        \* the texts of the soup when post_processing parsed it
  sent,       \* per slot: texts of the slot passed to translate_strings in this pass
  repl,       \* per slot: replacements of the slot in this pass
  elig,       \* elements find_strings returned in this pass
  globbed,    \* the list find_html_files returned to this run
  verdicts    \* per path: what find_corrupt_pages reported in this run

\* a translate_strings call on its own: text and max_retries are its arguments
VARIABLES
  ts_text,    \* the argument text
  ts_max,     \* the argument max_retries
  ts_pc,      \* "idle", "loop", "returned", "exited"
  ts_retries, \* the local retries
  ts_trace,   \* the backend calls and sleeps of this call, in order
  ts_result,  \* the returned text
  ts_ncall,   \* how many calls the process has made
  ts_failed   \* backend failures of the earlier calls of the process

\* the text functions on their own: remove_comment_lines, the doctype replace
VARIABLES
  tx_op,      \* which function was applied
  tx_in,      \* its argument
  tx_out      \* its result

main_vars == << src, tgt, tdirs, run, pc, idx, mem, ti, retries, maxReached,
                calls, ev, nwrites, tgt0, pre, sent, repl, elig, globbed,
                verdicts >>
ts_vars == << ts_text, ts_max, ts_pc, ts_retries, ts_trace, ts_result,
              ts_ncall, ts_failed >>
tx_vars == << tx_op, tx_in, tx_out >>
aux == << ts_vars, tx_vars >>

vars == << main_vars, aux >>

Paths == 1..MaxFiles
\* root_dir.glob("**/*.html"): the paths that hold a file, in glob order
RECURSIVE glob_from(_, _)
glob_from(tree, i) ==
  IF i > MaxFiles THEN <<>>
  ELSE (IF tree[i].exists THEN <<i>> ELSE <<>>) \o glob_from(tree, i + 1)

\* find_html_files(source_dir), as main keeps it for the run
html_files == globbed
\* target_file.parent: odd paths lie in a subdirectory, even ones in target_dir
ParentDir(f) == f % 2

Events == {"exists", "validated", "corrupt", "sanitized", "doctrans", "write",
           "postproc", "repair", "selector", "fragment", "final"}

\* mutation of target_exists: the existence test is lost
target_exists_lost(f) == FALSE

\* target_file.exists()
target_exists(f) == tgt[f].exists

\* mutation of corrupt_continue: a corrupt verdict no longer skips the file
corrupt_continue_lost(v) == FALSE

\* "if find_corrupt_pages(html_file): ... continue": v is the verdict
corrupt_continue(v) == v

\* mutation of exit_pc: the exit is swallowed and main's loop goes on
exit_pc_swallowed == "loop"

\* exit(): the process ends
exit_pc == "exited"

cur == html_files[idx]
tags == find_all(Nodes(mem))
Log(f, es) == [ev EXCEPT ![f] = @ \cup es]

\* mutation of corrupt_disposition: the corrupt source file is deleted
corrupt_disposition_delete(c) == Absent

\* what main does to a source file judged corrupt: print and continue
corrupt_disposition(c) == c

\* the call and the text functions on their own are not in use
TSParked ==
  /\ ts_text = EmptyText /\ ts_max = 0 /\ ts_pc = "parked" /\ ts_retries = 0
  /\ ts_trace = <<>> /\ ts_result = EmptyText /\ ts_ncall = 0 /\ ts_failed = 0
TXParked == tx_op = "parked" /\ tx_in = <<>> /\ tx_out = <<>>

Init ==
  /\ TSParked /\ TXParked
  /\ globbed = <<>>
  /\ verdicts = [f \in Paths |-> "none"]
  /\ src \in [Paths -> {SourceFile(k) : k \in Shapes}]
  /\ tgt = [f \in Paths |-> Absent]
  /\ tdirs = {}
  /\ run = 1
  /\ pc = "start"
  /\ idx = 1
  /\ mem = Absent
  /\ ti = 0
  /\ retries = 0
  /\ maxReached = FALSE
  /\ calls = 0
  /\ ev = [f \in Paths |-> {}]
  /\ nwrites = [f \in Paths |-> 0]
  /\ tgt0 = tgt
  /\ pre = <<>>
  /\ sent = <<>>
  /\ repl = <<>>
  /\ elig = {}

\* main, up to the for loop: create target_dir, list the files
Start ==
  /\ pc = "start"
  /\ tdirs' = tdirs \cup {0}
  /\ pc' = "loop"
  /\ UNCHANGED << src, tgt, run, idx, mem, ti, retries, maxReached, calls, ev,
                  nwrites, tgt0, pre, sent, repl, elig >>
  /\ globbed' = glob_from(src, 1)
  /\ UNCHANGED << verdicts, aux >>

\* for html_file in html_files: target_file.exists() -> continue
Skip ==
  /\ pc = "loop" /\ idx <= Len(html_files)
  /\ target_exists(cur)
  /\ ev' = Log(cur, IF tgt[cur].exists THEN {"exists"} ELSE {})
  /\ idx' = idx + 1
  /\ UNCHANGED << src, tgt, tdirs, run, pc, mem, ti, retries, maxReached, calls,
                  nwrites, tgt0, pre, sent, repl, elig >>
  /\ UNCHANGED << globbed, verdicts, aux >>

\* if find_corrupt_pages(html_file): continue
Validate ==
  /\ pc = "loop" /\ idx <= Len(html_files)
  /\ ~target_exists(cur)
  /\ LET v == find_corrupt_pages(src[cur]) IN
       /\ ev' = Log(cur, {"validated"}
                         \cup (IF v THEN {"corrupt"} ELSE {})
                         \cup (IF tgt[cur].exists THEN {"exists"} ELSE {}))
       /\ IF corrupt_continue(v)
          THEN idx' = idx + 1 /\ pc' = pc
          ELSE idx' = idx /\ pc' = "read"
       /\ src' = [src EXCEPT ![cur] = IF v THEN corrupt_disposition(@) ELSE @]
  /\ verdicts' = [verdicts EXCEPT ![cur] = Verdict(src[cur])]
  /\ UNCHANGED << globbed, aux >>
  /\ UNCHANGED << tgt, tdirs, run, mem, ti, retries, maxReached, calls,
                  nwrites, tgt0, pre, sent, repl, elig >>

\* fr.read(), remove_comment_lines, translatehtml.translate_html
ReadTranslate ==
  /\ pc = "read"
  /\ IF src[cur].exists /\ Catalogue[src[cur].shape].readable
     THEN \E S \in SUBSET TextNodeSlots(src[cur]) :
            /\ mem' = translate_html(remove_comment_lines(src[cur]), S,
                                     Catalogue[src[cur].shape].doctype)
            /\ ev' = Log(cur, {"sanitized", "doctrans"})
            /\ pc' = "write"
     ELSE \* open/read raises and nothing catches it
          /\ pc' = "crashed"
          /\ UNCHANGED << mem, ev >>
  /\ UNCHANGED << src, tgt, tdirs, run, idx, ti, retries, maxReached, calls,
                  nwrites, tgt0, pre, sent, repl, elig >>
  /\ UNCHANGED << globbed, verdicts, aux >>

\* target_file.parent.mkdir(parents=True, exist_ok=True); fw.write(...)
WriteTarget ==
  /\ pc = "write"
  /\ tdirs' = tdirs \cup {0, ParentDir(cur)}
  /\ tgt' = [tgt EXCEPT ![cur] = mem]
  /\ nwrites' = [nwrites EXCEPT ![cur] = @ + 1]
  /\ ev' = Log(cur, {"write"})
  /\ mem' = Absent
  /\ pc' = "post"
  /\ UNCHANGED << src, run, idx, ti, retries, maxReached, calls, tgt0, pre,
                  sent, repl, elig >>
  /\ UNCHANGED << globbed, verdicts, aux >>

\* post_processing, first with-block: fix the doctype declaration in the file
DoctypeRepair ==
  /\ pc = "post"
  /\ IF tgt[cur].tok
     THEN /\ tgt' = [tgt EXCEPT ![cur] = doctype_repair(@)]
          /\ nwrites' = [nwrites EXCEPT ![cur] = @ + 1]
          /\ ev' = Log(cur, {"postproc", "repair"})
     ELSE /\ ev' = Log(cur, {"postproc"})
          /\ UNCHANGED << tgt, nwrites >>
  /\ pc' = "parse"
  /\ UNCHANGED << src, tdirs, run, idx, mem, ti, retries, maxReached, calls,
                  tgt0, pre, sent, repl, elig >>
  /\ UNCHANGED << globbed, verdicts, aux >>

\* post_processing, second with-block: soup = BeautifulSoup(f), find_all
Parse ==
  /\ pc = "parse"
  /\ mem' = tgt[cur]
  /\ pre' = tgt[cur].slots
  /\ sent' = [i \in 1..Len(tgt[cur].slots) |-> 0]
  /\ repl' = [i \in 1..Len(tgt[cur].slots) |-> 0]
  /\ elig' = {}
  /\ ti' = 1
  /\ pc' = "tags"
  /\ UNCHANGED << src, tgt, tdirs, run, idx, retries, maxReached, calls, ev,
                  nwrites, tgt0 >>
  /\ UNCHANGED << globbed, verdicts, aux >>

\* the assignment tag[...] = translated_string / tag.string.replace_with(...)
Replace(c, s, t) == [c EXCEPT !.slots[s] = t]

\* for tag in soup.find_all(tags_to_check): find_strings(tag); a selected tag
\* enters translate_strings, which answers "" at once for an empty text
Select ==
  /\ pc = "tags" /\ ti <= Len(tags)
  /\ LET n == tags[ti]
         s == TextSlot(mem, n) IN
       \E lang \in Langs :
         IF find_strings(mem, n, lang)
         THEN /\ elig' = elig \cup {n}
              /\ sent' = [sent EXCEPT ![s] = @ + 1]
              /\ ev' = Log(cur, {"selector", "fragment"})
              /\ IF ShortCircuit(mem.slots[s])
                 THEN /\ mem' = Replace(mem, s, EmptyText)
                      /\ repl' = [repl EXCEPT ![s] = @ + 1]
                      /\ ti' = ti + 1
                      /\ pc' = pc
                 ELSE /\ pc' = "translate"
                      /\ UNCHANGED << mem, repl, ti >>
         ELSE /\ ev' = Log(cur, {"selector"})
              /\ ti' = ti + 1
              /\ UNCHANGED << elig, sent, mem, repl, pc >>
  /\ retries' = 0
  /\ calls' = 0
  /\ UNCHANGED << src, tgt, tdirs, run, idx, maxReached, nwrites, tgt0, pre >>
  /\ UNCHANGED << globbed, verdicts, aux >>

\* translate_strings, one turn of the while loop: the backend answers and the
\* caller replaces the text, or it raises and the loop sleeps and counts
TranslateAttempt ==
  /\ pc = "translate"
  /\ RetryAllowed(retries)
  /\ calls' = calls + 1
  /\ LET s == TextSlot(mem, tags[ti]) IN
       \E ok \in BOOLEAN :
         IF ok
         THEN /\ mem' = Replace(mem, s, Translated(mem.slots[s], "google"))
              /\ repl' = [repl EXCEPT ![s] = @ + 1]
              /\ ti' = ti + 1
              /\ pc' = "tags"
              /\ UNCHANGED retries
         ELSE /\ retries' = retries + 1
              /\ UNCHANGED << mem, repl, ti, pc >>
  /\ UNCHANGED << src, tgt, tdirs, run, idx, maxReached, ev, nwrites, tgt0,
                  pre, sent, elig >>
  /\ UNCHANGED << globbed, verdicts, aux >>

\* translate_strings after the loop: print the message and exit()
TranslateExhausted ==
  /\ pc = "translate"
  /\ ~RetryAllowed(retries)
  /\ maxReached' = TRUE
  /\ pc' = exit_pc
  /\ UNCHANGED << src, tgt, tdirs, run, idx, mem, ti, retries, calls, ev,
                  nwrites, tgt0, pre, sent, repl, elig >>
  /\ UNCHANGED << globbed, verdicts, aux >>

\* post_processing after the loop: write soup.prettify() over the file;
\* main's loop goes on to the next file
Prettify ==
  /\ pc = "tags" /\ ti > Len(tags)
  /\ tgt' = [tgt EXCEPT ![cur] = [mem EXCEPT !.pretty = TRUE]]
  /\ nwrites' = [nwrites EXCEPT ![cur] = @ + 1]
  /\ ev' = Log(cur, {"final"})
  /\ mem' = Absent
  /\ pre' = <<>>
  /\ sent' = <<>>
  /\ repl' = <<>>
  /\ elig' = {}
  /\ ti' = 0
  /\ retries' = 0
  /\ calls' = 0
  /\ idx' = idx + 1
  /\ pc' = "loop"
  /\ UNCHANGED << src, tdirs, run, maxReached, tgt0 >>
  /\ UNCHANGED << globbed, verdicts, aux >>

\* main returns after the last file
Done ==
  /\ pc = "loop" /\ idx > Len(html_files)
  /\ pc' = "done"
  /\ UNCHANGED << src, tgt, tdirs, run, idx, mem, ti, retries, maxReached,
                  calls, ev, nwrites, tgt0, pre, sent, repl, elig >>
  /\ UNCHANGED << globbed, verdicts, aux >>

\* the program is started again on the same source and target trees
Rerun ==
  /\ pc \in {"done", "exited", "crashed"}
  /\ run < MaxRuns
  /\ run' = run + 1
  /\ pc' = "start"
  /\ idx' = 1
  /\ mem' = Absent
  /\ ti' = 0
  /\ retries' = 0
  /\ maxReached' = FALSE
  /\ calls' = 0
  /\ ev' = [f \in Paths |-> {}]
  /\ nwrites' = [f \in Paths |-> 0]
  /\ tgt0' = tgt
  /\ pre' = <<>>
  /\ sent' = <<>>
  /\ repl' = <<>>
  /\ elig' = {}
  /\ UNCHANGED << src, tgt, tdirs >>
  /\ globbed' = <<>>
  /\ verdicts' = [f \in Paths |-> "none"]
  /\ UNCHANGED aux

\* the environment: a source file of the mirror disappears while the run is
\* at it, before find_corrupt_pages or between it and main's own open
MaxRemovals == 1
RemoveSource ==
  /\ pc \in {"loop", "read"} /\ idx <= Len(html_files)
  /\ src[cur].exists
  /\ Cardinality({f \in Paths : ~src[f].exists}) < MaxRemovals
  /\ src' = [src EXCEPT ![cur] = Absent]
  /\ UNCHANGED << tgt, tdirs, run, pc, idx, mem, ti, retries, maxReached,
                  calls, ev, nwrites, tgt0, pre, sent, repl, elig, globbed,
                  verdicts, aux >>

Next ==
  \/ RemoveSource
  \/ Start
  \/ Skip
  \/ Validate
  \/ ReadTranslate
  \/ WriteTarget
  \/ DoctypeRepair
  \/ Parse
  \/ Select
  \/ TranslateAttempt
  \/ TranslateExhausted
  \/ Prettify
  \/ Done
  \/ Rerun

Spec == Init /\ [][Next]_vars

\* the pipeline is not in use (the call or the text functions are run alone)
MainParked ==
  /\ src = [f \in Paths |-> Absent] /\ tgt = [f \in Paths |-> Absent]
  /\ tdirs = {} /\ run = 1 /\ pc = "parked" /\ idx = 1 /\ mem = Absent
  /\ ti = 0 /\ retries = 0 /\ maxReached = FALSE /\ calls = 0
  /\ ev = [f \in Paths |-> {}] /\ nwrites = [f \in Paths |-> 0]
  /\ tgt0 = [f \in Paths |-> Absent] /\ pre = <<>> /\ sent = <<>>
  /\ repl = <<>> /\ elig = {} /\ globbed = <<>>
  /\ verdicts = [f \in Paths |-> "none"]

\* ------------------------------------------- translate_strings on its own
MaxArg == 3            \* largest max_retries argument
MaxCalls == 2          \* calls of translate_strings made by one process

\* argument texts: empty, whitespace only, and texts with a visible character
ArgTexts ==
  {EmptyText, T(<<" ">>), T(<<" ", "\n">>), T(<<"H", "i">>), T(<<" ", "H">>)}

\* mutation of ts_start: the counter is kept from the call before
ts_start_kept(r) == r

\* "retries = 0": the value of the local counter when a call begins
ts_start(r) == 0

\* "while retries < max_retries"
ts_loop(r, m) == r < m

\* the sleeps in a trace: the failed backend calls
Sleeps(tr) == Cardinality({i \in 1..Len(tr) : tr[i] = "sleep"})
Calls(tr) == Cardinality({i \in 1..Len(tr) : tr[i] = "call"})

TSInit ==
  /\ MainParked /\ TXParked
  /\ ts_text = EmptyText /\ ts_max = 0 /\ ts_pc = "idle" /\ ts_retries = 0
  /\ ts_trace = <<>> /\ ts_result = EmptyText /\ ts_ncall = 0 /\ ts_failed = 0

\* translate_strings(text, max_retries) is called: the test of line 101
\* returns "" at once, otherwise the loop is entered with retries = 0
TSCall ==
  /\ ts_pc \in {"idle", "returned"}
  /\ ts_ncall < MaxCalls
  /\ \E t \in ArgTexts, m \in 0..MaxArg :
       /\ ts_text' = t
       /\ ts_max' = m
       /\ IF ShortCircuit(t)
          THEN /\ ts_pc' = "returned"
               /\ ts_result' = EmptyText
               /\ UNCHANGED ts_retries
          ELSE /\ ts_pc' = "loop"
               /\ ts_retries' = ts_start(ts_retries)
               /\ UNCHANGED ts_result
  /\ ts_ncall' = ts_ncall + 1
  /\ ts_failed' = ts_failed + Sleeps(ts_trace)
  /\ ts_trace' = <<>>
  /\ UNCHANGED << main_vars, tx_vars >>

\* one turn of the while loop: the backend answers and the call returns, or
\* it raises, the call sleeps and counts the retry
TSAttempt ==
  /\ ts_pc = "loop"
  /\ ts_loop(ts_retries, ts_max)
  /\ \E ok \in BOOLEAN :
       IF ok
       THEN /\ ts_trace' = Append(ts_trace, "call")
            /\ ts_result' = Translated(ts_text, "google")
            /\ ts_pc' = "returned"
            /\ UNCHANGED ts_retries
       ELSE /\ ts_trace' = ts_trace \o <<"call", "sleep">>
            /\ ts_retries' = ts_retries + 1
            /\ UNCHANGED << ts_result, ts_pc >>
  /\ UNCHANGED << ts_text, ts_max, ts_ncall, ts_failed, main_vars, tx_vars >>

\* after the loop: "Maximum number of retries reached." and exit()
TSExhausted ==
  /\ ts_pc = "loop"
  /\ ~ts_loop(ts_retries, ts_max)
  /\ ts_pc' = "exited"
  /\ UNCHANGED << ts_text, ts_max, ts_retries, ts_trace, ts_result, ts_ncall,
                  ts_failed, main_vars, tx_vars >>

TSNext ==
  \/ TSCall
  \/ TSAttempt
  \/ TSExhausted

SpecTS == TSInit /\ [][TSNext]_vars

\* a running call takes its next turn
FairSpecTS == TSInit /\ [][TSNext]_vars /\ WF_vars(TSAttempt \/ TSExhausted)

\* ------------------------------------------------ text functions on their own
MaxPieces == 5         \* an argument text is made of at most so many pieces

OPEN == <<"<", "!", "-", "-">>
CLOSE == <<"-", "-", ">">>
\* the code points of source_text and the characters of target_text
source_text ==
  <<"U090F", "U091A", "U091F", "U0940", "U090F", "U092E", "U090F", "U0932">>
target_text ==
  <<"<", "!", "D", "O", "C", "T", "Y", "P", "E", " ", "h", "t", "m", "l", ">">>

CommentPieces == {OPEN, CLOSE, <<"<", "!", "-">>, <<"-">>, <<"a">>, <<"\n">>}
TokenPieces ==
  {source_text, <<"U090F">>, <<"U090F", "U091A", "U091F", "U0940">>,
   <<"U090F", "U092E", "U090F", "U0932">>, <<"a">>}

RECURSIVE Flatten(_)
Flatten(ps) == IF ps = <<>> THEN <<>> ELSE Head(ps) \o Flatten(Tail(ps))
TextsOf(pieces) ==
  {Flatten(ps) : ps \in UNION {[1..n -> pieces] : n \in 0..MaxPieces}}

\* pat occurs in t at position i
HasAt(t, i, pat) ==
  /\ i >= 1 /\ i + Len(pat) - 1 <= Len(t)
  /\ \A j \in 1..Len(pat) : t[i + j - 1] = pat[j]
\* "pat in t"
Contains(t, pat) == \E i \in 1..Len(t) : HasAt(t, i, pat)

\* mutation of FirstClose: greedy, the last "-->" ends the match
LastClose(t, i) ==
  IF \E k \in i..Len(t) : HasAt(t, k, CLOSE)
  THEN CHOOSE k \in i..Len(t) :
         HasAt(t, k, CLOSE) /\ \A k2 \in (k + 1)..Len(t) : ~HasAt(t, k2, CLOSE)
  ELSE 0

\* ".*?-->" with DOTALL: the first "-->" at or after i ends the match; 0 = none
FirstClose(t, i) ==
  IF \E k \in i..Len(t) : HasAt(t, k, CLOSE)
  THEN CHOOSE k \in i..Len(t) :
         HasAt(t, k, CLOSE) /\ \A k2 \in i..(k - 1) : ~HasAt(t, k2, CLOSE)
  ELSE 0

\* pattern.sub("", html_text): scan from the left, drop each match and go on
\* behind it, keep every other character
RECURSIVE pattern_sub(_, _)
pattern_sub(t, i) ==
  IF i > Len(t) THEN <<>>
  ELSE IF HasAt(t, i, OPEN) /\ FirstClose(t, i + Len(OPEN)) # 0
       THEN pattern_sub(t, FirstClose(t, i + Len(OPEN)) + Len(CLOSE))
       ELSE <<t[i]>> \o pattern_sub(t, i + 1)

\* remove_comment_lines(html_text) on the characters of the text
remove_comment_text(t) == IF t = <<>> THEN <<>> ELSE pattern_sub(t, 1)

\* mutation of str_replace: only the first occurrence is replaced
RECURSIVE str_replace_first(_, _, _, _)
str_replace_first(t, old, new, i) ==
  IF i > Len(t) THEN <<>>
  ELSE IF HasAt(t, i, old)
       THEN new \o SubSeq(t, i + Len(old), Len(t))
       ELSE <<t[i]>> \o str_replace_first(t, old, new, i + 1)

\* str.replace(old, new): every occurrence, found from the left, from i on
RECURSIVE str_replace(_, _, _, _)
str_replace(t, old, new, i) ==
  IF i > Len(t) THEN <<>>
  ELSE IF HasAt(t, i, old)
       THEN new \o str_replace(t, old, new, i + Len(old))
       ELSE <<t[i]>> \o str_replace(t, old, new, i + 1)

\* the doctype repair of post_processing on the characters of file_content
doctype_fix(t) ==
  IF Contains(t, source_text) THEN str_replace(t, source_text, target_text, 1)
  ELSE t

TXInit ==
  /\ MainParked /\ TSParked
  /\ \/ tx_op = "html_text" /\ tx_in \in TextsOf(CommentPieces)
     \/ tx_op = "file_content" /\ tx_in \in TextsOf(TokenPieces)
  /\ tx_out = <<>>

\* cleaned_html_text = remove_comment_lines(html_text)
Sanitize ==
  /\ tx_op = "html_text"
  /\ tx_op' = "sanitized"
  /\ tx_out' = remove_comment_text(tx_in)
  /\ UNCHANGED << tx_in, main_vars, ts_vars >>

\* the first with-block of post_processing on file_content
Repair ==
  /\ tx_op = "file_content"
  /\ tx_op' = "repaired"
  /\ tx_out' = doctype_fix(tx_in)
  /\ UNCHANGED << tx_in, main_vars, ts_vars >>

\* the repair applied to its own result
RepairAgain ==
  /\ tx_op = "repaired"
  /\ tx_op' = "repaired twice"
  /\ tx_in' = tx_out
  /\ tx_out' = doctype_fix(tx_out)
  /\ UNCHANGED << main_vars, ts_vars >>

TXNext ==
  \/ Sanitize
  \/ Repair
  \/ RepairAgain

SpecText == TXInit /\ [][TXNext]_vars

\* ------------------------------------------------------------ properties
\* what the run did for a file beyond looking at it
Work == {"validated", "corrupt", "sanitized", "doctrans", "write", "postproc",
         "repair", "selector", "fragment", "final"}

\* a target that went through all of post_processing
FullyProcessed(c) == c.exists /\ c.pretty /\ ~c.tok

\* C1: a file whose target exists when main's loop reaches it is not
\* validated, sanitized, translated or written in this run, and its target
\* is the one the run started with.
C1_SkipIfExists ==
  \A f \in Paths :
    "exists" \in ev[f] =>
      /\ ev[f] \cap Work = {}
      /\ nwrites[f] = 0
      /\ tgt[f] = tgt0[f]

C1_Witness ==
  /\ pc = "done" /\ run > 1
  /\ \E f \in Paths : "exists" \in ev[f] /\ FullyProcessed(tgt[f])

\* C2: when a run has ended, normally or by retry exhaustion, every file
\* under the target root is fully processed.
C2_NoPartialOutput ==
  pc \in {"done", "exited"} =>
    \A f \in Paths : tgt[f].exists => FullyProcessed(tgt[f])

\* C3: a run that follows a run ended by retry exhaustion and that completes
\* leaves a fully processed target for every input that is not corrupt.
C3_ResumeEquivalence ==
  (run > 1 /\ pc = "done") =>
    \A f \in Paths :
      ~find_corrupt_pages(src[f]) => FullyProcessed(tgt[f])

\* C4: translate_strings never makes more than max_retries backend calls,
\* and when the backend failed every time it reports the maximum after
\* exactly max_retries calls and ends the process with the text unreplaced.
C4_RetryBound ==
  /\ calls <= max_retries
  /\ maxReached =>
       /\ calls = max_retries
       /\ pc = "exited"
       /\ LET s == TextSlot(mem, tags[ti]) IN
            /\ ~ShortCircuit(mem.slots[s])
            /\ repl[s] = sent[s] - 1

C4_Witness == pc = "exited" /\ maxReached /\ calls = max_retries

\* C5: once the maximum of retries was reported the run is over: no step of
\* the run calls the backend, validates a file or writes, and the step that
\* reports it leaves every target as it is.
C5_FatalStop ==
  /\ [](maxReached => pc = "exited")
  /\ [][(maxReached' /\ run' = run) =>
          /\ tgt' = tgt /\ nwrites' = nwrites /\ tdirs' = tdirs
          /\ maxReached => (calls' = calls /\ ev' = ev)]_vars

C5_Witness ==
  /\ pc = "exited" /\ maxReached
  /\ idx < Len(html_files) /\ ev[html_files[idx + 1]] = {}

\* C6: a file that find_corrupt_pages reported corrupt is not sanitized,
\* translated, selected from or post-processed, nothing is written at its
\* target path, and no target directory exists only because of it.
C6_CorruptTerminal ==
  /\ \A f \in Paths :
       "corrupt" \in ev[f] =>
         /\ ev[f] \subseteq {"validated", "corrupt"}
         /\ nwrites[f] = 0
         /\ ~tgt[f].exists
  /\ \A d \in tdirs :
       d = 0 \/ \E f \in Paths : ParentDir(f) = d /\ tgt[f].exists

C6_Witness ==
  /\ pc = "done"
  /\ \E f, g \in Paths :
       /\ "corrupt" \in ev[f] /\ src[f].exists /\ Catalogue[src[f].shape].size0
       /\ "final" \in ev[g]

\* C7: after a run that completed, a target exists exactly for the files
\* whose target existed before the run or that were judged not corrupt; a
\* zero-byte file without an earlier target has none, a valid page has one.
C7_Completeness ==
  pc = "done" =>
    \A f \in Paths :
      /\ tgt[f].exists <=>
           \/ tgt0[f].exists
           \/ ("validated" \in ev[f] /\ "corrupt" \notin ev[f])
      /\ (src[f].exists /\ Catalogue[src[f].shape].size0 /\ ~tgt0[f].exists)
           => ~tgt[f].exists
      /\ (src[f].exists /\ src[f].shape = 5) => tgt[f].exists

C7_Witness ==
  /\ pc = "done" /\ run = 1
  /\ \E a, b \in Paths :
       /\ src[a].exists /\ src[a].shape = 5 /\ FullyProcessed(tgt[a])
       /\ src[b].exists /\ Catalogue[src[b].shape].size0 /\ ~tgt[b].exists

\* C8: the target path of a file is written at most once in a run, and a
\* file is at its target path only when it is fully processed.
C8_SingleCommit ==
  \A f \in Paths :
    /\ nwrites[f] <= 1
    /\ tgt[f].exists => FullyProcessed(tgt[f])

\* the texts of an element itself: its direct text children and its
\* alt / placeholder attribute
OwnSlots(nodes, n) ==
  {-nodes[n].kids[i] : i \in {j \in 1..Len(nodes[n].kids) : nodes[n].kids[j] < 0}}
    \cup (IF nodes[n].attr # 0 THEN {nodes[n].attr} ELSE {})

\* the for loop of post_processing is over and the soup not yet written
PassOver == pc = "tags" /\ ti > Len(tags)

\* C9: at the end of the pass every element find_strings returned had its
\* text replaced exactly once, no text was sent to translate_strings or
\* replaced twice, and the texts of all other elements are as parsed.
C9_RoundTrip ==
  PassOver =>
    /\ \A n \in elig : repl[TextSlot(mem, n)] = 1
    /\ \A s \in 1..Len(mem.slots) : sent[s] <= 1 /\ repl[s] <= 1
    /\ \A n \in (1..Len(Nodes(mem))) \ elig :
         \A s \in OwnSlots(Nodes(mem), n) : mem.slots[s] = pre[s]

\* the numeric badge pattern: digits, at most one "," or "." between digits,
\* then one of M K B P +
Digits == {"0", "1", "2", "3", "4", "5", "6", "7", "8", "9"}
IsBadge(l) ==
  /\ Len(l) >= 2
  /\ l[Len(l)] \in {"M", "K", "B", "P", "+"}
  /\ l[1] \in Digits /\ l[Len(l) - 1] \in Digits
  /\ \A i \in 1..(Len(l) - 1) : l[i] \in Digits \cup {",", "."}
  /\ Cardinality({i \in 1..(Len(l) - 1) : l[i] \in {",", "."}}) <= 1

\* C10: an element whose text is a numeric badge is never returned by
\* find_strings and keeps its text through post_processing.
C10_BadgeNeverSelected ==
  pc \in {"tags", "translate"} =>
    \A n \in 1..Len(Nodes(mem)) :
      LET s == String(Nodes(mem), n) IN
        (s # 0 /\ pre[s].by = <<>> /\ IsBadge(pre[s].lit)) =>
          (n \notin elig /\ mem.slots[s] = pre[s])

\* the file has an rss or feed element / its first h2 holds the phrase
HasFeedElement(c) ==
  \E i \in 1..Len(Nodes(c)) : Nodes(c)[i].name \in {"rss", "feed"}
FirstH2Challenge(c) ==
  \E i \in 1..Len(Nodes(c)) :
    /\ Nodes(c)[i].name = "h2"
    /\ \A j \in 1..(i - 1) : Nodes(c)[j].name # "h2"
    /\ \E k \in 1..Len(get_text(Nodes(c), c.slots, i)) :
         get_text(Nodes(c), c.slots, i)[k] = Phrase
Unreadable(c) == ~c.exists \/ ~Catalogue[c.shape].readable

\* v is the right report for the file c
RightVerdict(c, v) ==
  /\ v # "ok" <=>
       \/ Unreadable(c)
       \/ Catalogue[c.shape].size0
       \/ HasFeedElement(c)
       \/ FirstH2Challenge(c)
  /\ (c.exists /\ Catalogue[c.shape].size0) => v = "empty"
  /\ v \in {"notfound", "error"} => Unreadable(c)
  /\ v = "feed" => HasFeedElement(c)
  /\ (~Unreadable(c) /\ ~Catalogue[c.shape].size0 /\ HasFeedElement(c))
       => v = "feed"
  /\ v = "blocked" => (FirstH2Challenge(c) /\ ~HasFeedElement(c))

\* C11: whenever find_corrupt_pages reports on a file, it reports corrupt
\* exactly for a zero-byte, unreadable, feed or challenge file, and the
\* reason is that of the first test that matches (empty before feed before
\* challenge).
C11_ValidatorVerdict ==
  [][\A f \in Paths :
       (verdicts'[f] # verdicts[f] /\ verdicts'[f] # "none")
         => RightVerdict(src[f], verdicts'[f])]_vars

C11_Witness ==
  \E f, g \in Paths :
    /\ src[f].exists /\ src[f].shape = 10 /\ verdicts[f] = "feed"
    /\ src[g].exists /\ src[g].shape = 11 /\ verdicts[g] = "ok"

\* C12: in a translate_strings call backend calls and waits alternate,
\* beginning with a call, and when the call is over every wait was followed
\* by another backend call.
C12_Backoff ==
  /\ \A i \in 1..Len(ts_trace) :
       ts_trace[i] = (IF i % 2 = 1 THEN "call" ELSE "sleep")
  /\ (ts_pc \in {"returned", "exited"} /\ ts_trace # <<>>)
       => ts_trace[Len(ts_trace)] = "call"

\* C13: post_processing never passes an empty or whitespace-only text to
\* translate_strings.
C13_NonEmptyArgument ==
  [][(pc = "tags" /\ pc' \in {"tags", "translate"} /\ sent' # sent)
       => LET t == mem.slots[TextSlot(mem, tags[ti])] IN
            \E i \in 1..Len(t.lit) : t.lit[i] \notin Space]_vars

\* all characters of the text are whitespace (none, for the empty text)
Blank(t) == \A i \in 1..Len(t.lit) : t.lit[i] \in Space

\* C14: a call with an empty or whitespace-only text returns the empty
\* string without a backend call, a wait or an exit, whatever max_retries.
C14_EmptyShortCircuit ==
  (ts_ncall > 0 /\ Blank(ts_text)) =>
    /\ ts_pc = "returned"
    /\ ts_result = EmptyText
    /\ ts_trace = <<>>

C14_Witness ==
  /\ ts_pc = "returned" /\ ts_text = T(<<" ", "\n">>) /\ ts_max = 0
  /\ ts_ncall = 2 /\ ts_failed > 0

\* C15: the doctype repair turns a content with the token into one with the
\* literal declaration and without the token, leaves a content without the
\* token as it is, and changes nothing when applied to its own result.
C15_DoctypeRepair ==
  /\ tx_op = "repaired" =>
       IF Contains(tx_in, source_text)
       THEN Contains(tx_out, target_text) /\ ~Contains(tx_out, source_text)
       ELSE tx_out = tx_in
  /\ tx_op = "repaired twice" => tx_out = tx_in

C15_Witness ==
  /\ tx_op = "repaired twice"
  /\ Contains(tx_in, target_text)
  /\ \E i, j \in 1..Len(tx_in) :
       i # j /\ HasAt(tx_in, i, target_text) /\ HasAt(tx_in, j, target_text)

\* C16: a read failure never ends the run: the file is skipped and no target
\* is written for it.
C16_ReadFailureSkips ==
  /\ pc # "crashed"
  /\ \A f \in Paths : (~src[f].exists /\ ~tgt0[f].exists) => ~tgt[f].exists

\* t holds a complete <!--...--> range
HasRange(t) ==
  \E a, b \in 1..Len(t) :
    HasAt(t, a, OPEN) /\ HasAt(t, b, CLOSE) /\ b >= a + Len(OPEN)

\* the characters of u occur in t in the same order
RECURSIVE IsSubseq(_, _)
IsSubseq(u, t) ==
  IF u = <<>> THEN TRUE
  ELSE IF t = <<>> THEN FALSE
  ELSE IF Head(u) = Head(t) THEN IsSubseq(Tail(u), Tail(t))
  ELSE IsSubseq(u, Tail(t))

\* the leftmost range of t that is minimal: it opens at a, its "-->" is at b
FirstRange(t, a, b) ==
  /\ HasAt(t, a, OPEN) /\ HasAt(t, b, CLOSE) /\ b >= a + Len(OPEN)
  /\ \A b2 \in (a + Len(OPEN))..(b - 1) : ~HasAt(t, b2, CLOSE)
  /\ \A a2 \in 1..(a - 1) :
       ~(HasAt(t, a2, OPEN)
         /\ \E b2 \in (a2 + Len(OPEN))..Len(t) : HasAt(t, b2, CLOSE))

\* C17 as stated: the result of remove_comment_lines holds no complete
\* range, keeps the other characters in order, is empty for the empty text
\* and is the text itself when the text has no range.
C17_SanitizerNoRangeLeft ==
  tx_op = "sanitized" =>
    /\ ~HasRange(tx_out)
    /\ IsSubseq(tx_out, tx_in)
    /\ tx_in = <<>> => tx_out = <<>>
    /\ ~HasRange(tx_in) => tx_out = tx_in

\* C17 (amended): remove_comment_lines removes, in one pass from the left,
\* each leftmost minimal range (the text up to it is kept, the text behind
\* it is treated the same way), keeps the other characters in order, is empty
\* for the empty text and is the text itself when the text has no range.
C17_Sanitizer ==
  tx_op = "sanitized" =>
    /\ \A a, b \in 1..Len(tx_in) :
         FirstRange(tx_in, a, b) =>
           tx_out = SubSeq(tx_in, 1, a - 1)
                      \o remove_comment_text(
                           SubSeq(tx_in, b + Len(CLOSE), Len(tx_in)))
    /\ IsSubseq(tx_out, tx_in)
    /\ tx_in = <<>> => tx_out = <<>>
    /\ ~HasRange(tx_in) => tx_out = tx_in

C17_Witness ==
  /\ tx_op = "sanitized"
  /\ HasRange(tx_in) /\ HasRange(tx_out)

\* the tag names of the selector's closed set of text elements
TextTags ==
  {"h1", "h2", "h3", "h4", "h5", "h6", "p", "span", "a", "li", "td", "th",
   "title"}

\* C18: an element selected for its text is in the closed set and the text
\* that is sent and replaced is its single direct text child.
C18_DirectTextOnly ==
  pc \in {"tags", "translate"} =>
    \A n \in elig :
      Nodes(mem)[n].name \notin {"input", "img"} =>
        /\ Nodes(mem)[n].name \in TextTags
        /\ Nodes(mem)[n].kids = << -TextSlot(mem, n) >>

\* C19: no step of a run changes the source tree; a source file changes only
\* when the environment removes it.
C19_SourceReadOnly == [][RemoveSource \/ src' = src]_vars

C19_Witness ==
  /\ pc = "done"
  /\ \A f \in Paths : src[f].exists
  /\ \E f, g \in Paths :
       /\ verdicts[f] = "empty" /\ "corrupt" \in ev[f]
       /\ "final" \in ev[g]

\* C20: a call that returns a backend result made k calls and k - 1 waits
\* with 1 <= k <= max_retries; a call never makes more than max_retries
\* backend calls and exits only after max_retries of them; the counter counts
\* the failures of this call only; every call that entered the loop returns
\* or exits.
C20_Inv ==
  /\ Calls(ts_trace) <= ts_max
  /\ ts_pc = "loop" => ts_retries = Sleeps(ts_trace)
  /\ (ts_pc = "returned" /\ ~Blank(ts_text)) =>
       /\ Calls(ts_trace) >= 1
       /\ Sleeps(ts_trace) = Calls(ts_trace) - 1
       /\ ts_result = Translated(ts_text, "google")
  /\ ts_pc = "exited" =>
       /\ Calls(ts_trace) = ts_max
       /\ Sleeps(ts_trace) = ts_max
C20_RetryAccounting ==
  /\ []C20_Inv
  /\ (ts_pc = "loop") ~> (ts_pc \in {"returned", "exited"})

C20_Witness ==
  /\ ts_pc = "returned" /\ ~Blank(ts_text)
  /\ ts_ncall = 2 /\ ts_failed > 0
  /\ ts_max >= 2 /\ Calls(ts_trace) = ts_max
====
